---- MODULE Spec2Model ----
(***************************************************************************)
(* A model of the rotation subsystem of vutils: the Quaternion class       *)
(* (src/src/Quaternion.ts) and the Matrix4 class (src/src/Matrix4.ts).     *)
(*                                                                         *)
(* Numbers.  The program computes with IEEE doubles.  The model computes   *)
(* with exact rationals <<n, d>> (d > 0, lowest terms).  Wherever the      *)
(* inputs are dyadic (integers, halves) the two agree bit for bit; for the *)
(* other inputs (thirds, fifths) the model is the real-number reading of   *)
(* the same expression.  Math.sqrt is modelled on rational squares only,   *)
(* and an angle is given by the rational values of its cosine and sine     *)
(* (and of the cosine and sine of its half where the code halves it), so   *)
(* every action is guarded to the inputs on which the code's expression    *)
(* has an exact rational value.                                            *)
(***************************************************************************)
EXTENDS Integers, Sequences, FiniteSets, TLC

----------------------------------------------------------------------------
(* Exact arithmetic standing for the number type of the program. *)

Abs(n) == IF n < 0 THEN -n ELSE n

RECURSIVE GCD(_, _)
GCD(p, r) == IF r = 0 THEN p ELSE GCD(r, p % r)

Rat(n, d) ==
  LET g == GCD(Abs(n), Abs(d))
      s == IF d < 0 THEN -1 ELSE 1
  IN  <<(s * n) \div g, (s * d) \div g>>

R(n) == <<n, 1>>

Zero == R(0)
One == R(1)
Two == R(2)

(* sums and products reduce before they multiply, to keep the integers small *)
RAdd(p, r) ==
  IF p[2] = r[2] THEN Rat(p[1] + r[1], p[2])
  ELSE LET g == GCD(p[2], r[2])
       IN  Rat(p[1] * (r[2] \div g) + r[1] * (p[2] \div g),
               (p[2] \div g) * r[2])
RNeg(p) == <<-p[1], p[2]>>
RSub(p, r) == RAdd(p, RNeg(r))
RMul(p, r) ==
  IF p[2] = 1 /\ r[2] = 1 THEN <<p[1] * r[1], 1>>
  ELSE IF p[1] = 0 \/ r[1] = 0 THEN <<0, 1>>
  ELSE LET g1 == GCD(Abs(p[1]), r[2])
           g2 == GCD(Abs(r[1]), p[2])
       IN  <<(p[1] \div g1) * (r[1] \div g2), (p[2] \div g2) * (r[2] \div g1)>>
RDiv(p, r) == RMul(p, Rat(r[2], r[1]))
RLt(p, r) == RSub(p, r)[1] < 0
RLe(p, r) == RSub(p, r)[1] <= 0
RAbs(p) == <<Abs(p[1]), p[2]>>

Sum3(p, r, s) == RAdd(RAdd(p, r), s)
Sum4(p, r, s, u) == RAdd(RAdd(RAdd(p, r), s), u)
Mul3(p, r, s) == RMul(RMul(p, r), s)

(* Math.sqrt, on the rationals whose root is rational. *)
RECURSIVE RootSearch(_, _, _)
RootSearch(n, lo, hi) ==
  IF lo >= hi THEN lo
  ELSE LET mid == (lo + hi + 1) \div 2
       IN  IF mid * mid <= n THEN RootSearch(n, mid, hi)
           ELSE RootSearch(n, lo, mid - 1)
RootInt(n) == RootSearch(n, 0, IF n < 46340 THEN n ELSE 46340)
IsSquareInt(n) == n >= 0 /\ RootInt(n) * RootInt(n) = n
IsSquare(p) == IsSquareInt(p[1]) /\ IsSquareInt(p[2])
Sqrt(p) == <<RootInt(p[1]), RootInt(p[2])>>

----------------------------------------------------------------------------
(* Vector3: three components. *)

Vec(x, y, z) == [x |-> x, y |-> y, z |-> z]

Vector3_getNorm(v) ==
  Sqrt(Sum3(RMul(v.x, v.x), RMul(v.y, v.y), RMul(v.z, v.z)))

HasNorm(v) == IsSquare(Sum3(RMul(v.x, v.x), RMul(v.y, v.y), RMul(v.z, v.z)))

----------------------------------------------------------------------------
(* Quaternion *)

Quaternion(w, x, y, z) == [w |-> w, x |-> x, y |-> y, z |-> z]

QuaternionIdentity == Quaternion(One, Zero, Zero, Zero)

negate(a) == Quaternion(RNeg(a.w), RNeg(a.x), RNeg(a.y), RNeg(a.z))

NormSquared(a) ==
  Sum4(RMul(a.w, a.w), RMul(a.x, a.x), RMul(a.y, a.y), RMul(a.z, a.z))

getNorm(a) == Sqrt(NormSquared(a))

getConjugate(a) == Quaternion(a.w, RNeg(a.x), RNeg(a.y), RNeg(a.z))

dotProduct(a, b) ==
  Sum4(RMul(a.w, b.w), RMul(a.x, b.x), RMul(a.y, b.y), RMul(a.z, b.z))

(* crossStep with the sign of one term of x slipped *)
crossStep_slip(a, b) ==
  LET w == RSub(RSub(RSub(RMul(a.w, b.w), RMul(a.x, b.x)), RMul(a.y, b.y)),
                RMul(a.z, b.z))
      x == Sum4(RMul(a.w, b.x), RMul(a.x, b.w), RMul(a.z, b.y), RMul(a.y, b.z))
      y == RSub(Sum3(RMul(a.w, b.y), RMul(a.y, b.w), RMul(a.x, b.z)),
                RMul(a.z, b.x))
      z == RSub(Sum3(RMul(a.w, b.z), RMul(a.z, b.w), RMul(a.y, b.x)),
                RMul(a.x, b.y))
  IN  Quaternion(w, x, y, z)

(* crossStep with the operands in the order of the standard definition *)
crossStep_standard(a, b) ==
  LET w == RSub(RSub(RSub(RMul(a.w, b.w), RMul(a.x, b.x)), RMul(a.y, b.y)),
                RMul(a.z, b.z))
      x == RSub(Sum3(RMul(a.w, b.x), RMul(a.x, b.w), RMul(a.y, b.z)),
                RMul(a.z, b.y))
      y == RSub(Sum3(RMul(a.w, b.y), RMul(a.y, b.w), RMul(a.z, b.x)),
                RMul(a.x, b.z))
      z == RSub(Sum3(RMul(a.w, b.z), RMul(a.z, b.w), RMul(a.x, b.y)),
                RMul(a.y, b.x))
  IN  Quaternion(w, x, y, z)

(* The reducer of crossProduct: one step of args.reduce. *)
crossStep(a, b) ==
  LET w == RSub(RSub(RSub(RMul(a.w, b.w), RMul(a.x, b.x)), RMul(a.y, b.y)),
                RMul(a.z, b.z))
      x == RSub(Sum3(RMul(a.w, b.x), RMul(a.x, b.w), RMul(a.z, b.y)),
                RMul(a.y, b.z))
      y == RSub(Sum3(RMul(a.w, b.y), RMul(a.y, b.w), RMul(a.x, b.z)),
                RMul(a.z, b.x))
      z == RSub(Sum3(RMul(a.w, b.z), RMul(a.z, b.w), RMul(a.y, b.x)),
                RMul(a.x, b.y))
  IN  Quaternion(w, x, y, z)

RECURSIVE QReduce(_, _)
QReduce(acc, rest) ==
  IF rest = <<>> THEN acc ELSE QReduce(crossStep(acc, Head(rest)), Tail(rest))

(* crossProduct(...args) throws when fewer than two operands are given. *)
crossProductThrows(args) == Len(args) < 2

crossProduct(args) == QReduce(Head(args), Tail(args))

Quaternion_scalarMultiply(scalar, a) ==
  Quaternion(RMul(scalar, a.w), RMul(scalar, a.x), RMul(scalar, a.y),
             RMul(scalar, a.z))

(* the displacement without the conjugate *)
getAngularDisplacement_plain(a, b) == crossProduct(<<a, b>>)

getAngularDisplacement(a, b) == crossProduct(<<getConjugate(a), b>>)

(* Math.sin(s * omega) / sinOmega of slerp's non-parallel branch, where
   sinOmega = sqrt(1 - cosOmega^2) and omega = atan2(sinOmega, cosOmega):
   0 at s = 0, 1 at s = 1, and 1 / (2 cos(omega / 2)) = 1 / sqrt(2 (1 + cosOmega))
   at s = 1/2. *)
Half == Rat(1, 2)
Quarter == Rat(1, 4)

SinRatioExact(s, cosOmega) ==
  \/ s = Zero
  \/ s = One
  \/ s = Half /\ IsSquare(RMul(Two, RAdd(One, cosOmega)))

SinRatio(s, cosOmega) ==
  IF s = Zero THEN Zero
  ELSE IF s = One THEN One
  ELSE RDiv(One, Sqrt(RMul(Two, RAdd(One, cosOmega))))

ParallelThreshold == Rat(9999, 10000)

slerpCosOmega(a, b) == RAbs(dotProduct(a, b))

slerpExact(a, b, t) ==
  \/ RLt(ParallelThreshold, slerpCosOmega(a, b))
  \/ /\ RLt(slerpCosOmega(a, b), One)
     /\ SinRatioExact(RSub(One, t), slerpCosOmega(a, b))
     /\ SinRatioExact(t, slerpCosOmega(a, b))

slerp(a, b0, t) ==
  LET c0 == dotProduct(a, b0)
      b == IF RLt(c0, Zero) THEN negate(b0) ELSE b0
      cosOmega == IF RLt(c0, Zero) THEN RNeg(c0) ELSE c0
      parallel == RLt(ParallelThreshold, cosOmega)
      k0 == IF parallel THEN RSub(One, t) ELSE SinRatio(RSub(One, t), cosOmega)
      k1 == IF parallel THEN t ELSE SinRatio(t, cosOmega)
      w == RAdd(RMul(a.w, k0), RMul(b.w, k1))
      x == RAdd(RMul(a.x, k0), RMul(b.x, k1))
      y == RAdd(RMul(a.y, k0), RMul(b.y, k1))
      z == RAdd(RMul(a.z, k1), RMul(b.z, k1))
  IN  Quaternion(w, x, y, z)

----------------------------------------------------------------------------
(* Matrix4: sixteen components, m11 .. m34 and the row tx ty tz tw. *)

Matrix4(m11, m12, m13, m14, m21, m22, m23, m24, m31, m32, m33, m34, tx, ty, tz, tw) ==
  [m11 |-> m11, m12 |-> m12, m13 |-> m13, m14 |-> m14,
   m21 |-> m21, m22 |-> m22, m23 |-> m23, m24 |-> m24,
   m31 |-> m31, m32 |-> m32, m33 |-> m33, m34 |-> m34,
   tx |-> tx, ty |-> ty, tz |-> tz, tw |-> tw]

(* new Matrix4() : the constructor's defaults. *)
NewMatrix4 ==
  Matrix4(One, Zero, Zero, Zero, Zero, One, Zero, Zero,
          Zero, Zero, One, Zero, Zero, Zero, Zero, One)

Twice(p, r) == RMul(Two, RMul(p, r))

fromWorldToObjectQuaternion(q) ==
  LET m11 == RSub(RSub(One, Twice(q.y, q.y)), Twice(q.z, q.z))
      m12 == RAdd(Twice(q.x, q.y), Twice(q.w, q.z))
      m13 == RSub(Twice(q.x, q.z), Twice(q.w, q.y))
      m21 == RSub(Twice(q.x, q.y), Twice(q.w, q.z))
      m22 == RSub(RSub(One, Twice(q.x, q.x)), Twice(q.z, q.z))
      m23 == RAdd(Twice(q.y, q.z), Twice(q.w, q.x))
      m31 == RAdd(Twice(q.x, q.z), Twice(q.w, q.y))
      m32 == RSub(Twice(q.y, q.z), Twice(q.w, q.x))
      m33 == RSub(RSub(One, Twice(q.x, q.x)), Twice(q.y, q.y))
  IN  Matrix4(m11, m12, m13, Zero, m21, m22, m23, Zero,
              m31, m32, m33, Zero, Zero, Zero, Zero, One)

fromObjectToWorldQuaternion(q) ==
  LET m11 == RSub(RSub(One, Twice(q.y, q.y)), Twice(q.z, q.z))
      m12 == RSub(Twice(q.x, q.y), Twice(q.w, q.z))
      m13 == RAdd(Twice(q.x, q.z), Twice(q.w, q.y))
      m21 == RAdd(Twice(q.x, q.y), Twice(q.w, q.z))
      m22 == RSub(RSub(One, Twice(q.x, q.x)), Twice(q.z, q.z))
      m23 == RSub(Twice(q.y, q.z), Twice(q.w, q.x))
      m31 == RSub(Twice(q.x, q.z), Twice(q.w, q.y))
      m32 == RAdd(Twice(q.y, q.z), Twice(q.w, q.x))
      m33 == RSub(RSub(One, Twice(q.x, q.x)), Twice(q.y, q.y))
  IN  Matrix4(m11, m12, m13, Zero, m21, m22, m23, Zero,
              m31, m32, m33, Zero, Zero, Zero, Zero, One)

(* fromRotationMatrix: which of the four candidates is the biggest, as the
   three successive comparisons of the source decide it. *)
fourSquaredMinus1(m) ==
  <<Sum3(m.m11, m.m22, m.m33),
    RSub(RSub(m.m11, m.m22), m.m33),
    RSub(RSub(m.m22, m.m11), m.m33),
    RSub(RSub(m.m33, m.m11), m.m22)>>

biggestAfter(m, n) ==
  LET f == fourSquaredMinus1(m)
      s1 == IF RLt(f[1], f[2]) THEN 1 ELSE 0
      s2 == IF n >= 2 /\ RLt(f[s1 + 1], f[3]) THEN 2 ELSE s1
      s3 == IF n >= 3 /\ RLt(f[s2 + 1], f[4]) THEN 3 ELSE s2
  IN  s3

biggestIndex(m) == biggestAfter(m, 3)

fourBiggestSquaredMinus1(m) == fourSquaredMinus1(m)[biggestIndex(m) + 1]

fromRotationMatrixExact(m) ==
  /\ IsSquare(RAdd(fourBiggestSquaredMinus1(m), One))
  /\ RAdd(fourBiggestSquaredMinus1(m), One) # Zero

fromRotationMatrix(m) ==
  LET biggestVal == RMul(Sqrt(RAdd(fourBiggestSquaredMinus1(m), One)), Half)
      mult == RDiv(Quarter, biggestVal)
      i == biggestIndex(m)
  IN  CASE i = 0 ->
             Quaternion(biggestVal,
                        RMul(RSub(m.m23, m.m32), mult),
                        RMul(RSub(m.m31, m.m13), mult),
                        RMul(RSub(m.m12, m.m21), mult))
        [] i = 1 ->
             Quaternion(biggestVal,
                        RMul(RSub(m.m23, m.m32), mult),
                        RMul(RAdd(m.m12, m.m21), mult),
                        RMul(RAdd(m.m31, m.m13), mult))
        [] i = 2 ->
             Quaternion(biggestVal,
                        RMul(RSub(m.m31, m.m13), mult),
                        RMul(RAdd(m.m12, m.m21), mult),
                        RMul(RAdd(m.m23, m.m32), mult))
        [] i = 3 ->
             Quaternion(biggestVal,
                        RMul(RSub(m.m12, m.m21), mult),
                        RMul(RAdd(m.m31, m.m13), mult),
                        RMul(RAdd(m.m23, m.m13), mult))

----------------------------------------------------------------------------
(* Angles.  An angle is the record of the values Math.cos and Math.sin take
   on it, and on its half where the code halves it. *)

Angle(c, s) == [cos |-> c, sin |-> s]
HalvedAngle(hc, hs) ==
  [cos |-> RSub(RMul(hc, hc), RMul(hs, hs)), sin |-> Twice(hs, hc),
   cosHalf |-> hc, sinHalf |-> hs]

(* 0, pi, 2 pi, and the angle whose half has cosine 3/5 and sine 4/5 *)
HalvedAngles ==
  {HalvedAngle(One, Zero), HalvedAngle(Zero, One), HalvedAngle(RNeg(One), Zero),
   HalvedAngle(Rat(3, 5), Rat(4, 5))}

----------------------------------------------------------------------------
(* Quaternion instance methods; the receiver is passed as this. *)

AxisTolerance == Rat(1, 100)

setToRotateAboutAxisThrows(axis) ==
  RLe(AxisTolerance, RSub(Vector3_getNorm(axis), One))

setToRotateAboutAxis(this, axis, theta) ==
  Quaternion(theta.cosHalf, RMul(theta.sinHalf, axis.x),
             RMul(theta.sinHalf, axis.y), RMul(theta.sinHalf, axis.z))

setToRotateAboutX(this, theta) ==
  Quaternion(theta.cosHalf, theta.sinHalf, Zero, Zero)
setToRotateAboutY(this, theta) ==
  Quaternion(theta.cosHalf, Zero, theta.sinHalf, Zero)
setToRotateAboutZ(this, theta) ==
  Quaternion(theta.cosHalf, Zero, Zero, theta.sinHalf)

----------------------------------------------------------------------------
(* Matrix4 static functions *)

Matrix4_scalarMultiply(scalar, mm) ==
  Matrix4(RMul(mm.m11, scalar), RMul(mm.m12, scalar), RMul(mm.m13, scalar),
          RMul(mm.m14, scalar), RMul(mm.m21, scalar), RMul(mm.m22, scalar),
          RMul(mm.m23, scalar), RMul(mm.m24, scalar), RMul(mm.m31, scalar),
          RMul(mm.m32, scalar), RMul(mm.m33, scalar), RMul(mm.m34, scalar),
          RMul(mm.tx, scalar), RMul(mm.ty, scalar), RMul(mm.tz, scalar),
          RMul(mm.tw, scalar))

(* Dot4 with the last factor taken from the column's third entry *)
Dot4_slip(p1, r1, p2, r2, p3, r3, p4, r4) ==
  Sum4(RMul(p1, r1), RMul(p2, r2), RMul(p3, r3), RMul(p4, r3))

Dot4(p1, r1, p2, r2, p3, r3, p4, r4) ==
  Sum4(RMul(p1, r1), RMul(p2, r2), RMul(p3, r3), RMul(p4, r4))

(* The reducer of matrix4Multiply: one step of args.reduce. *)
multiplyStep(A, B) ==
  Matrix4(
    Dot4(A.m11, B.m11, A.m12, B.m21, A.m13, B.m31, A.m14, B.tx),
    Dot4(A.m11, B.m12, A.m12, B.m22, A.m13, B.m32, A.m14, B.ty),
    Dot4(A.m11, B.m13, A.m12, B.m23, A.m13, B.m33, A.m14, B.tz),
    Dot4(A.m11, B.m14, A.m12, B.m24, A.m13, B.m34, A.m14, B.tw),
    Dot4(A.m21, B.m11, A.m22, B.m21, A.m23, B.m31, A.m24, B.tx),
    Dot4(A.m21, B.m12, A.m22, B.m22, A.m23, B.m32, A.m24, B.ty),
    Dot4(A.m21, B.m13, A.m22, B.m23, A.m23, B.m33, A.m24, B.tz),
    Dot4(A.m21, B.m14, A.m22, B.m24, A.m23, B.m34, A.m24, B.tw),
    Dot4(A.m31, B.m11, A.m32, B.m21, A.m33, B.m31, A.m34, B.tx),
    Dot4(A.m31, B.m12, A.m32, B.m22, A.m33, B.m32, A.m34, B.ty),
    Dot4(A.m31, B.m13, A.m32, B.m23, A.m33, B.m33, A.m34, B.tz),
    Dot4(A.m31, B.m14, A.m32, B.m24, A.m33, B.m34, A.m34, B.tw),
    Dot4(A.tx, B.m11, A.ty, B.m21, A.tz, B.m31, A.tw, B.tx),
    Dot4(A.tx, B.m12, A.ty, B.m22, A.tz, B.m32, A.tw, B.ty),
    Dot4(A.tx, B.m13, A.ty, B.m23, A.tz, B.m33, A.tw, B.tz),
    Dot4(A.tx, B.m14, A.ty, B.m24, A.tz, B.m34, A.tw, B.tw))

RECURSIVE MReduce(_, _)
MReduce(acc, rest) ==
  IF rest = <<>> THEN acc
  ELSE MReduce(multiplyStep(acc, Head(rest)), Tail(rest))

(* matrix4Multiply testing for fewer than one operand *)
matrix4MultiplyThrows_slip(args) == Len(args) < 1

(* Matrix4.matrix4Multiply(...args) throws when fewer than two operands. *)
matrix4MultiplyThrows(args) == Len(args) < 2

matrix4Multiply(args) == MReduce(Head(args), Tail(args))

----------------------------------------------------------------------------
(* Matrix4 instance methods; the receiver is passed as this and the value
   is the receiver after the call. *)

cloneFrom(this, target) == target

(* this.matrix4Multiply(...args) hands <<this>> \o args to the static one *)
instanceMultiplyThrows(this, args) == matrix4MultiplyThrows(<<this>> \o args)

instanceMultiply(this, args) ==
  cloneFrom(this, matrix4Multiply(<<this>> \o args))

identity(this) ==
  Matrix4(One, Zero, Zero, Zero, Zero, One, Zero, Zero,
          Zero, Zero, One, Zero, Zero, Zero, Zero, One)

(* The elementary matrix each constructor builds before composing it. *)
translationMatrix(v) ==
  Matrix4(One, Zero, Zero, Zero, Zero, One, Zero, Zero,
          Zero, Zero, One, Zero, v.x, v.y, v.z, One)

(* setTranslation replacing the receiver instead of composing into it *)
setTranslation_replacing(this, v) == cloneFrom(this, translationMatrix(v))

setTranslation(this, v) == instanceMultiply(this, <<translationMatrix(v)>>)

rotateXYZMatrix(name, th) ==
  LET r0 == NewMatrix4
      r1 == CASE name \in {"x", "X"} ->
                   [r0 EXCEPT !.m11 = One, !.m12 = Zero, !.m13 = Zero,
                              !.m14 = Zero, !.m21 = Zero, !.m22 = th.cos,
                              !.m23 = th.sin, !.m24 = Zero, !.m31 = Zero,
                              !.m32 = RNeg(th.sin), !.m33 = th.cos,
                              !.m34 = Zero]
              [] name \in {"y", "Y"} ->
                   [r0 EXCEPT !.m11 = th.cos, !.m12 = Zero,
                              !.m13 = RNeg(th.sin), !.m14 = Zero,
                              !.m21 = Zero, !.m22 = One, !.m23 = Zero,
                              !.m24 = Zero, !.m31 = th.sin, !.m32 = Zero,
                              !.m33 = th.cos, !.m34 = Zero]
              [] name \in {"z", "Z"} ->
                   [r0 EXCEPT !.m11 = th.cos, !.m12 = th.sin, !.m13 = Zero,
                              !.m14 = Zero, !.m21 = RNeg(th.sin),
                              !.m22 = th.cos, !.m23 = Zero, !.m24 = Zero,
                              !.m31 = Zero, !.m32 = Zero, !.m33 = One,
                              !.m34 = Zero]
              [] OTHER -> r0
  IN  [r1 EXCEPT !.tx = Zero, !.ty = Zero, !.tz = Zero, !.tw = One]

setRotateFromXYZAxis(this, name, th) ==
  instanceMultiply(this, <<rotateXYZMatrix(name, th)>>)

(* the three constructors that take an axis share the test of its length *)
axisThrows(v) == RLt(AxisTolerance, RAbs(RSub(Vector3_getNorm(v), One)))

setRotateFromVector3Throws(v) == axisThrows(v)

rotateVector3Matrix(v, th) ==
  LET a1 == RSub(One, th.cos)
      ax == RMul(a1, v.x)
      ay == RMul(a1, v.y)
      az == RMul(a1, v.z)
  IN  Matrix4(RAdd(RMul(ax, v.x), th.cos),
              RAdd(RMul(ax, v.y), RMul(v.z, th.sin)),
              RSub(RMul(ax, v.z), RMul(v.y, th.sin)),
              Zero,
              RSub(RMul(ay, v.x), RMul(v.z, th.sin)),
              RAdd(RMul(ay, v.y), th.cos),
              RAdd(RMul(ay, v.z), RMul(v.x, th.sin)),
              Zero,
              RAdd(RMul(az, v.x), RMul(v.y, th.sin)),
              RSub(RMul(az, v.y), RMul(v.x, th.sin)),
              RAdd(RMul(az, v.z), th.cos),
              Zero,
              Zero, Zero, Zero, One)

setRotateFromVector3(this, v, th) ==
  instanceMultiply(this, <<rotateVector3Matrix(v, th)>>)

scaleMatrix(v) ==
  Matrix4(v.x, Zero, Zero, Zero, Zero, v.y, Zero, Zero,
          Zero, Zero, v.z, Zero, Zero, Zero, Zero, One)

setScale(this, v) == instanceMultiply(this, <<scaleMatrix(v)>>)

setScaleFromAxisThrows(v) == axisThrows(v)

scaleFromAxisMatrix(v, k) ==
  LET a1 == RSub(k, One)
      ax == RMul(a1, v.x)
      ay == RMul(a1, v.y)
      az == RMul(a1, v.z)
  IN  Matrix4(RAdd(RMul(ax, v.x), One), RMul(ax, v.y), RMul(ax, v.z), Zero,
              RMul(ax, v.y), RAdd(RMul(ay, v.y), One), RMul(ay, v.z), Zero,
              RMul(ax, v.z), RMul(ay, v.z), RAdd(RMul(az, v.z), One), Zero,
              Zero, Zero, Zero, One)

setScaleFromAxis(this, v, k) ==
  instanceMultiply(this, <<scaleFromAxisMatrix(v, k)>>)

(* the shear along x whatever the axis string *)
shearMatrix_slip(name, s, u) ==
  Matrix4(One, Zero, Zero, Zero, Zero, One, Zero, Zero,
          s, u, One, Zero, Zero, Zero, Zero, One)

shearMatrix(name, s, u) ==
  LET r0 == NewMatrix4
      r1 == CASE name \in {"x", "X"} ->
                   [r0 EXCEPT !.m11 = One, !.m12 = Zero, !.m13 = Zero,
                              !.m21 = Zero, !.m22 = One, !.m23 = Zero,
                              !.m31 = s, !.m32 = u, !.m33 = One]
              [] name \in {"y", "Y"} ->
                   [r0 EXCEPT !.m11 = One, !.m12 = Zero, !.m13 = Zero,
                              !.m21 = s, !.m22 = One, !.m23 = u,
                              !.m31 = Zero, !.m32 = Zero, !.m33 = One]
              [] name \in {"z", "Z"} ->
                   [r0 EXCEPT !.m11 = One, !.m12 = s, !.m13 = u,
                              !.m21 = Zero, !.m22 = One, !.m23 = Zero,
                              !.m31 = Zero, !.m32 = Zero, !.m33 = One]
              [] OTHER -> r0
  IN  [r1 EXCEPT !.tx = Zero, !.ty = Zero,
                 !.m14 = Zero, !.m24 = Zero, !.m34 = Zero, !.tw = One]

setShear(this, name, s, u) == instanceMultiply(this, <<shearMatrix(name, s, u)>>)

setReflectionThrows(n) == axisThrows(n)

reflectionMatrix(n) ==
  LET ax == RMul(R(-2), n.x)
      ay == RMul(R(-2), n.y)
      az == RMul(R(-2), n.z)
  IN  Matrix4(RAdd(One, RMul(ax, n.x)), RMul(ax, n.y), RMul(ax, n.z), Zero,
              RMul(ax, n.y), RAdd(One, RMul(ay, n.y)), RMul(ay, n.z), Zero,
              RMul(ax, n.z), RMul(ay, n.z), RAdd(One, RMul(az, n.z)), Zero,
              Zero, Zero, Zero, One)

setReflection(this, n) == instanceMultiply(this, <<reflectionMatrix(n)>>)

(* orthoMatrix without the minus sign of m33 *)
orthoMatrix_slip(left, right, bottom, top, near, far) ==
  Matrix4(RDiv(Two, RSub(right, left)), Zero, Zero, Zero,
          Zero, RDiv(Two, RSub(top, bottom)), Zero, Zero,
          Zero, Zero, RDiv(Two, RSub(far, near)), Zero,
          RDiv(RNeg(RAdd(right, left)), RSub(right, left)),
          RDiv(RNeg(RAdd(top, bottom)), RSub(top, bottom)),
          RDiv(RNeg(RAdd(far, near)), RSub(far, near)),
          One)

(* setOrtho divides by right - left, top - bottom and far - near *)
orthoMatrix(left, right, bottom, top, near, far) ==
  Matrix4(RDiv(Two, RSub(right, left)), Zero, Zero, Zero,
          Zero, RDiv(Two, RSub(top, bottom)), Zero, Zero,
          Zero, Zero, RNeg(RDiv(Two, RSub(far, near))), Zero,
          RDiv(RNeg(RAdd(right, left)), RSub(right, left)),
          RDiv(RNeg(RAdd(top, bottom)), RSub(top, bottom)),
          RDiv(RNeg(RAdd(far, near)), RSub(far, near)),
          One)

setOrtho(this, left, right, bottom, top, near, far) ==
  instanceMultiply(this, <<orthoMatrix(left, right, bottom, top, near, far)>>)

(* the perspective matrix with tz = near * far * rangeInv *)
perspectiveMatrix_slip(fov, aspect, near, far) ==
  LET f == RDiv(fov.cosHalf, fov.sinHalf)
      rangeInv == RDiv(One, RSub(near, far))
  IN  Matrix4(RDiv(f, aspect), Zero, Zero, Zero,
              Zero, f, Zero, Zero,
              Zero, Zero, RMul(rangeInv, RAdd(near, far)), RNeg(One),
              Zero, Zero, RMul(RMul(near, far), rangeInv), Zero)

(* f = Math.tan(Math.PI / 2 - fov / 2) is cos(fov / 2) / sin(fov / 2) *)
perspectiveMatrix(fov, aspect, near, far) ==
  LET f == RDiv(fov.cosHalf, fov.sinHalf)
      rangeInv == RDiv(One, RSub(near, far))
  IN  Matrix4(RDiv(f, aspect), Zero, Zero, Zero,
              Zero, f, Zero, Zero,
              Zero, Zero, RMul(rangeInv, RAdd(near, far)), RNeg(One),
              Zero, Zero, RMul(RMul(RMul(Two, near), far), rangeInv), Zero)

setPerspective(this, fov, aspect, near, far) ==
  instanceMultiply(this, <<perspectiveMatrix(fov, aspect, near, far)>>)

transpose(this) ==
  Matrix4(this.m11, this.m21, this.m31, this.tx,
          this.m12, this.m22, this.m32, this.ty,
          this.m13, this.m23, this.m33, this.tz,
          this.m14, this.m24, this.m34, this.tw)

(* inverse: the sixteen entries of result before scaling *)
Sum6(p1, p2, p3, p4, p5, p6) ==
  RAdd(RAdd(RAdd(RAdd(RAdd(p1, p2), p3), p4), p5), p6)

cofactor_m11(this) ==
  Sum6(Mul3(this.m22, this.m33, this.tw),
       RNeg(Mul3(this.m22, this.m34, this.tz)),
       RNeg(Mul3(this.m32, this.m23, this.tw)),
       Mul3(this.m32, this.m24, this.tz),
       Mul3(this.ty, this.m23, this.m34),
       RNeg(Mul3(this.ty, this.m24, this.m33)))

cofactor_m21(this) ==
  Sum6(RNeg(Mul3(this.m21, this.m33, this.tw)),
       Mul3(this.m21, this.m34, this.tz),
       Mul3(this.m31, this.m23, this.tw),
       RNeg(Mul3(this.m31, this.m24, this.tz)),
       RNeg(Mul3(this.tx, this.m23, this.m34)),
       Mul3(this.tx, this.m24, this.m33))

cofactor_m31(this) ==
  Sum6(Mul3(this.m21, this.m32, this.tw),
       RNeg(Mul3(this.m21, this.m34, this.ty)),
       RNeg(Mul3(this.m31, this.m22, this.tw)),
       Mul3(this.m31, this.m24, this.ty),
       Mul3(this.tx, this.m22, this.m34),
       RNeg(Mul3(this.tx, this.m24, this.m32)))

cofactor_tx(this) ==
  Sum6(RNeg(Mul3(this.m21, this.m32, this.tz)),
       Mul3(this.m21, this.m33, this.ty),
       Mul3(this.m31, this.m22, this.tz),
       RNeg(Mul3(this.m31, this.m23, this.ty)),
       RNeg(Mul3(this.tx, this.m22, this.m33)),
       Mul3(this.tx, this.m23, this.m32))

(* cofactor_m12 with the sign of its first term slipped *)
cofactor_m12_slip(this) ==
  Sum6(Mul3(this.m12, this.m33, this.tw),
       Mul3(this.m12, this.m34, this.tz),
       Mul3(this.m32, this.m13, this.tw),
       RNeg(Mul3(this.m32, this.m14, this.tz)),
       RNeg(Mul3(this.ty, this.m13, this.m34)),
       Mul3(this.ty, this.m14, this.m33))

cofactor_m12(this) ==
  Sum6(RNeg(Mul3(this.m12, this.m33, this.tw)),
       Mul3(this.m12, this.m34, this.tz),
       Mul3(this.m32, this.m13, this.tw),
       RNeg(Mul3(this.m32, this.m14, this.tz)),
       RNeg(Mul3(this.ty, this.m13, this.m34)),
       Mul3(this.ty, this.m14, this.m33))

cofactor_m22(this) ==
  Sum6(Mul3(this.m11, this.m33, this.tw),
       RNeg(Mul3(this.m11, this.m34, this.tz)),
       RNeg(Mul3(this.m31, this.m13, this.tw)),
       Mul3(this.m31, this.m14, this.tz),
       Mul3(this.tx, this.m13, this.m34),
       RNeg(Mul3(this.tx, this.m14, this.m33)))

cofactor_m32(this) ==
  Sum6(RNeg(Mul3(this.m11, this.m32, this.tw)),
       Mul3(this.m11, this.m34, this.ty),
       Mul3(this.m31, this.m12, this.tw),
       RNeg(Mul3(this.m31, this.m14, this.ty)),
       RNeg(Mul3(this.tx, this.m12, this.m34)),
       Mul3(this.tx, this.m14, this.m32))

cofactor_ty(this) ==
  Sum6(Mul3(this.m11, this.m32, this.tz),
       RNeg(Mul3(this.m11, this.m33, this.ty)),
       RNeg(Mul3(this.m31, this.m12, this.tz)),
       Mul3(this.m31, this.m13, this.ty),
       Mul3(this.tx, this.m12, this.m33),
       RNeg(Mul3(this.tx, this.m13, this.m32)))

cofactor_m13(this) ==
  Sum6(Mul3(this.m12, this.m23, this.tw),
       RNeg(Mul3(this.m12, this.m24, this.tz)),
       RNeg(Mul3(this.m22, this.m13, this.tw)),
       Mul3(this.m22, this.m14, this.tz),
       Mul3(this.ty, this.m13, this.m24),
       RNeg(Mul3(this.ty, this.m14, this.m23)))

cofactor_m23(this) ==
  Sum6(RNeg(Mul3(this.m11, this.m23, this.tw)),
       Mul3(this.m11, this.m24, this.tz),
       Mul3(this.m21, this.m13, this.tw),
       RNeg(Mul3(this.m21, this.m14, this.tz)),
       RNeg(Mul3(this.tx, this.m13, this.m24)),
       Mul3(this.tx, this.m14, this.m23))

cofactor_m33(this) ==
  Sum6(Mul3(this.m11, this.m22, this.tw),
       RNeg(Mul3(this.m11, this.m24, this.ty)),
       RNeg(Mul3(this.m21, this.m12, this.tw)),
       Mul3(this.m21, this.m14, this.ty),
       Mul3(this.tx, this.m12, this.m24),
       RNeg(Mul3(this.tx, this.m14, this.m22)))

cofactor_tz(this) ==
  Sum6(RNeg(Mul3(this.m11, this.m22, this.tz)),
       Mul3(this.m11, this.m23, this.ty),
       Mul3(this.m21, this.m12, this.tz),
       RNeg(Mul3(this.m21, this.m13, this.ty)),
       RNeg(Mul3(this.tx, this.m12, this.m23)),
       Mul3(this.tx, this.m13, this.m22))

cofactor_m14(this) ==
  Sum6(RNeg(Mul3(this.m12, this.m23, this.m34)),
       Mul3(this.m12, this.m24, this.m33),
       Mul3(this.m22, this.m13, this.m34),
       RNeg(Mul3(this.m22, this.m14, this.m33)),
       RNeg(Mul3(this.m32, this.m13, this.m24)),
       Mul3(this.m32, this.m14, this.m23))

cofactor_m24(this) ==
  Sum6(Mul3(this.m11, this.m23, this.m34),
       RNeg(Mul3(this.m11, this.m24, this.m33)),
       RNeg(Mul3(this.m21, this.m13, this.m34)),
       Mul3(this.m21, this.m14, this.m33),
       Mul3(this.m31, this.m13, this.m24),
       RNeg(Mul3(this.m31, this.m14, this.m23)))

cofactor_m34(this) ==
  Sum6(RNeg(Mul3(this.m11, this.m22, this.m34)),
       Mul3(this.m11, this.m24, this.m32),
       Mul3(this.m21, this.m12, this.m34),
       RNeg(Mul3(this.m21, this.m14, this.m32)),
       RNeg(Mul3(this.m31, this.m12, this.m24)),
       Mul3(this.m31, this.m14, this.m22))

cofactor_tw(this) ==
  Sum6(Mul3(this.m11, this.m22, this.m33),
       RNeg(Mul3(this.m11, this.m23, this.m32)),
       RNeg(Mul3(this.m21, this.m12, this.m33)),
       Mul3(this.m21, this.m13, this.m32),
       Mul3(this.m31, this.m12, this.m23),
       RNeg(Mul3(this.m31, this.m13, this.m22)))

cofactors(this) ==
  Matrix4(cofactor_m11(this), cofactor_m12(this), cofactor_m13(this),
          cofactor_m14(this), cofactor_m21(this), cofactor_m22(this),
          cofactor_m23(this), cofactor_m24(this), cofactor_m31(this),
          cofactor_m32(this), cofactor_m33(this), cofactor_m34(this),
          cofactor_tx(this), cofactor_ty(this), cofactor_tz(this),
          cofactor_tw(this))

inverseDet(this) ==
  LET result == cofactors(this)
  IN  Dot4(this.m11, result.m11, this.m12, result.m21,
           this.m13, result.m31, this.m14, result.tx)

(* inverse that leaves a singular receiver as it was *)
inverse_keeping(this) ==
  LET result == cofactors(this)
      det == inverseDet(this)
  IN  IF det = Zero THEN this
      ELSE cloneFrom(this, Matrix4_scalarMultiply(RDiv(One, det), result))

inverse(this) ==
  LET result == cofactors(this)
      det == inverseDet(this)
  IN  IF det = Zero THEN cloneFrom(this, result)
      ELSE cloneFrom(this, Matrix4_scalarMultiply(RDiv(One, det), result))

----------------------------------------------------------------------------
(* Quaternion.normalize, Quaternion.pow and the Euler-angle conversions *)

(* normalize that leaves a quaternion of norm 0 as it was *)
normalize_keeping(this) ==
  LET norm == getNorm(this)
  IN  IF norm # Zero
        THEN Quaternion(RDiv(this.w, norm), RDiv(this.x, norm),
                        RDiv(this.y, norm), RDiv(this.z, norm))
        ELSE this

normalize(this) ==
  LET norm == getNorm(this)
  IN  IF norm # Zero
        THEN Quaternion(RDiv(this.w, norm), RDiv(this.x, norm),
                        RDiv(this.y, norm), RDiv(this.z, norm))
        ELSE Quaternion(One, Zero, Zero, Zero)

PowThreshold == Rat(999, 1000)

(* Math.sin(n * alpha) / Math.sin(alpha) for an integer n, where
   alpha = safeAcos(cosAlpha) and |cosAlpha| < 1: 0, 1, 2 cosAlpha, ... *)
RECURSIVE SinMultiple(_, _)
SinMultiple(n, cosAlpha) ==
  IF n < 0 THEN RNeg(SinMultiple(0 - n, cosAlpha))
  ELSE IF n = 0 THEN Zero
  ELSE IF n = 1 THEN One
  ELSE RSub(RMul(RMul(Two, cosAlpha), SinMultiple(n - 1, cosAlpha)),
            SinMultiple(n - 2, cosAlpha))

(* the exponents for which pow's sine quotient is a rational function of a.w *)
powExact(exponent) == exponent[2] = 1

(* the returned w is Math.cos(alpha) with alpha = safeAcos(a.w), that is a.w *)
pow(a, exponent) ==
  IF RLt(PowThreshold, RAbs(a.w)) THEN a
  ELSE LET mult == SinMultiple(exponent[1], a.w)
       IN  Quaternion(a.w, RMul(a.x, mult), RMul(a.y, mult), RMul(a.z, mult))

(* an EulerAngles object: three angles; the field is spelled picth *)
EulerAngles(heading, picth, bank) ==
  [heading |-> heading, picth |-> picth, bank |-> bank]

fromEulerAngle(orientation) ==
  LET sinH == orientation.heading.sin
      cosH == orientation.heading.cos
      sinP == orientation.picth.sin
      cosP == orientation.picth.cos
      sinB == orientation.bank.sin
      cosB == orientation.bank.cos
  IN  Matrix4(RAdd(RMul(cosH, cosB), Mul3(sinH, sinP, sinB)),
              RAdd(RMul(RNeg(cosH), sinB), Mul3(sinH, sinP, cosB)),
              RMul(sinH, cosP),
              Zero,
              RMul(sinB, cosP),
              RMul(cosB, cosP),
              RNeg(sinP),
              Zero,
              RAdd(RMul(RNeg(sinH), cosB), Mul3(cosH, sinP, sinB)),
              RAdd(RMul(sinB, sinH), Mul3(cosH, sinP, cosB)),
              RMul(cosH, cosP),
              Zero,
              Zero, Zero, Zero, One)

(* w and z as the code has them; x and y with the operands exchanged *)
setObjectToWorldFromEulerAngles_slip(orientation) ==
  LET sinHOver2 == orientation.heading.sinHalf
      cosHOver2 == orientation.heading.cosHalf
      sinPOver2 == orientation.picth.sinHalf
      cosPOver2 == orientation.picth.cosHalf
      sinBOver2 == orientation.bank.sinHalf
      cosBOver2 == orientation.bank.cosHalf
  IN  Quaternion(
        RAdd(Mul3(cosHOver2, cosPOver2, cosBOver2),
             Mul3(sinHOver2, sinPOver2, sinBOver2)),
        RAdd(Mul3(RNeg(cosHOver2), sinPOver2, sinBOver2),
             Mul3(sinHOver2, cosPOver2, cosBOver2)),
        RAdd(Mul3(cosHOver2, sinPOver2, cosBOver2),
             Mul3(sinHOver2, cosPOver2, sinBOver2)),
        RAdd(Mul3(RNeg(sinHOver2), sinPOver2, cosBOver2),
             Mul3(cosHOver2, cosPOver2, sinBOver2)))

setObjectToWorldFromEulerAngles(orientation) ==
  LET sinHOver2 == orientation.heading.sinHalf
      cosHOver2 == orientation.heading.cosHalf
      sinPOver2 == orientation.picth.sinHalf
      cosPOver2 == orientation.picth.cosHalf
      sinBOver2 == orientation.bank.sinHalf
      cosBOver2 == orientation.bank.cosHalf
  IN  Quaternion(
        RAdd(Mul3(cosHOver2, cosPOver2, cosBOver2),
             Mul3(sinHOver2, sinPOver2, sinBOver2)),
        RAdd(Mul3(cosHOver2, sinPOver2, cosBOver2),
             Mul3(sinHOver2, cosPOver2, sinBOver2)),
        RAdd(Mul3(RNeg(cosHOver2), sinPOver2, sinBOver2),
             Mul3(sinHOver2, cosPOver2, cosBOver2)),
        RAdd(Mul3(RNeg(sinHOver2), sinPOver2, cosBOver2),
             Mul3(cosHOver2, cosPOver2, sinBOver2)))

----------------------------------------------------------------------------
(* Matrix4.clearTranslation and Matrix4[Symbol.iterator] *)

clearTranslation(this) == [this EXCEPT !.tx = Zero, !.ty = Zero, !.tz = Zero]

(* the value of an array read past its end *)
undefined == <<0, 0>>

(* the iterator object: the closure's values array and index *)
iterator(this) ==
  [values |-> <<this.m11, this.m12, this.m13, this.m14,
                this.m21, this.m22, this.m23, this.m24,
                this.m31, this.m32, this.m33, this.m34,
                this.tx, this.ty, this.tz, this.tw>>,
   index |-> 0]

(* next(): the IteratorResult it returns, and the iterator it leaves *)
iteratorResult(it) ==
  [done |-> it.index = Len(it.values),
   value |-> IF it.index < Len(it.values) THEN it.values[it.index + 1]
             ELSE undefined]

iteratorAdvanced(it) == [it EXCEPT !.index = it.index + 1]

----------------------------------------------------------------------------
(* State *)

VARIABLES
  a,            \* a Quaternion object: receiver of the methods, first operand
  b, c, t,      \* the other operands of the last Quaternion call
  m,            \* the Matrix4 receiver
  applied,      \* the elementary matrices composed into m, oldest first
  elementary,   \* m was the identity and only elementary constructors ran
  steps,        \* the number of calls that changed a receiver
  op,           \* the last call
  err,          \* whether the last call threw
  retQ, retM,   \* the Quaternion / Matrix4 the last call returned
  pre, preQ,    \* m and a as they were when the last call started
  axis, theta,  \* the Vector3 and the angle handed to the last call
  axisName,     \* the axis string handed to the last call
  nums,         \* the plain numbers handed to the last call
  margs, nargs, \* the Matrix4 operands of the last call; the operand count
  iterators,    \* the iterator objects requested from m, oldest first
  yielded       \* the IteratorResult the last next() call returned

vars ==
  <<a, b, c, t, m, applied, elementary, steps, op, err, retQ, retM, pre, preQ,
    axis, theta, axisName, nums, margs, nargs, iterators, yielded>>

(* Bounds *)
MaxOps == 2
MaxArgs == 3
MaxMutations == 1
MaxIterators == 2
MaxNext == 18

ZeroQuaternion == Quaternion(Zero, Zero, Zero, Zero)
ZeroVector == Vec(Zero, Zero, Zero)
ZeroAngle == HalvedAngle(One, Zero)

(* Inputs *)
Halves == {Rat(k, 2) : k \in -2..2}

IsUnit(q) == NormSquared(q) = One

HurwitzUnits ==
  {q \in [w : Halves, x : Halves, y : Halves, z : Halves] : IsUnit(q)}

RationalUnits ==
  {Quaternion(Rat(7, 25), Rat(24, 25), Zero, Zero),
   Quaternion(Zero, Rat(3, 5), Zero, Rat(4, 5)),
   Quaternion(Rat(2, 3), Rat(-2, 3), Zero, Rat(1, 3))}

OtherQuaternions ==
  {ZeroQuaternion,
   Quaternion(R(1), R(2), R(3), R(4)),
   Quaternion(R(2), Zero, Zero, Zero),
   Quaternion(Zero, R(1), R(-1), Zero),
   Quaternion(Rat(1, 2), Zero, Zero, Rat(1, 4))}

QuaternionsA == HurwitzUnits \cup RationalUnits \cup OtherQuaternions

QuaternionsB ==
  {Quaternion(Zero, One, Zero, Zero),
   Quaternion(Zero, Zero, Zero, One),
   Quaternion(Half, Half, Half, Half),
   Quaternion(Rat(7, 25), Rat(24, 25), Zero, Zero),
   Quaternion(R(1), R(2), R(3), R(4)),
   Quaternion(R(1), Zero, R(-1), R(2))}

QuaternionsC ==
  {QuaternionIdentity,
   Quaternion(Zero, Zero, One, Zero),
   Quaternion(Half, RNeg(Half), Half, RNeg(Half)),
   Quaternion(R(2), R(1), Zero, R(-1))}

Parameters == {Zero, Quarter, Half, Rat(3, 4), One}

Axes ==
  {ZeroVector,
   Vec(One, Zero, Zero),
   Vec(Zero, Rat(3, 5), Rat(4, 5)),
   Vec(Zero, Zero, R(2)),
   Vec(Half, Zero, Zero),
   Vec(Zero, Rat(100, 101), Zero),
   Vec(Zero, Zero, Rat(51, 50)),
   Vec(Rat(49, 50), Zero, Zero)}

(* The parts of the call record a call does not use are reset. *)
Call(name, threw, n) ==
  op' = name /\ err' = threw /\ nargs' = n /\ UNCHANGED <<iterators, yielded>>
NoOperands == b' = ZeroQuaternion /\ c' = ZeroQuaternion /\ t' = Zero
NoVector == axis' = ZeroVector /\ theta' = ZeroAngle
NoNumbers == nums' = <<>> /\ axisName' = ""
NoMatrices == margs' = <<>> /\ retM' = NewMatrix4
NoQuaternion == retQ' = ZeroQuaternion

(* What a call on Quaternions leaves alone, and a call on Matrix4s. *)
MatrixIdle == UNCHANGED <<m, applied, elementary, pre>>
QuaternionIdle == UNCHANGED <<a, preQ>> /\ NoOperands /\ NoQuaternion

InitRecord ==
  /\ b = ZeroQuaternion
  /\ c = ZeroQuaternion
  /\ t = Zero
  /\ steps = 0
  /\ op = "new"
  /\ err = FALSE
  /\ retQ = ZeroQuaternion
  /\ retM = NewMatrix4
  /\ axis = ZeroVector
  /\ theta = ZeroAngle
  /\ axisName = ""
  /\ nums = <<>>
  /\ margs = <<>>
  /\ nargs = 0
  /\ iterators = <<>>
  /\ yielded = [done |-> FALSE, value |-> Zero]

(* Bookkeeping of a static Quaternion call f(a, ...) that returned r. *)
QuaternionCall(name, r, n) ==
  /\ Call(name, FALSE, n)
  /\ retQ' = r
  /\ preQ' = a
  /\ a' = a
  /\ steps' = steps
  /\ NoVector
  /\ NoNumbers
  /\ NoMatrices
  /\ MatrixIdle

----------------------------------------------------------------------------
(* The Quaternion functions: a is constructed from drawn components, the
   other operands are drawn at each call. *)

InitQuat ==
  /\ a \in QuaternionsA
  /\ preQ = a
  /\ m = NewMatrix4
  /\ pre = NewMatrix4
  /\ applied = <<>>
  /\ elementary = TRUE
  /\ InitRecord

(* Quaternion.slerp(a, b, t); b may be a itself *)
Slerp ==
  \E bb \in QuaternionsB \cup {a}, tt \in Parameters :
    /\ slerpExact(a, bb, tt)
    /\ b' = bb /\ c' = ZeroQuaternion /\ t' = tt
    /\ QuaternionCall("slerp", slerp(a, bb, tt), 2)

(* Quaternion.fromRotationMatrix(Matrix4.fromWorldToObjectQuaternion(a)) *)
FromRotationMatrix ==
  /\ fromRotationMatrixExact(fromWorldToObjectQuaternion(a))
  /\ Call("fromRotationMatrix", FALSE, 1)
  /\ retM' = fromWorldToObjectQuaternion(a)
  /\ retQ' = fromRotationMatrix(fromWorldToObjectQuaternion(a))
  /\ margs' = <<fromWorldToObjectQuaternion(a)>>
  /\ preQ' = a
  /\ a' = a
  /\ steps' = steps
  /\ NoOperands
  /\ NoVector
  /\ NoNumbers
  /\ MatrixIdle

(* Quaternion.crossProduct(a, b) *)
CrossProduct2 ==
  \E bb \in QuaternionsB \cup {a} :
    /\ b' = bb /\ c' = ZeroQuaternion /\ t' = Zero
    /\ QuaternionCall("crossProduct2", crossProduct(<<a, bb>>), 2)

(* Quaternion.crossProduct(a, b, c) *)
CrossProduct3 ==
  \E bb \in QuaternionsB, cc \in QuaternionsC :
    /\ b' = bb /\ c' = cc /\ t' = Zero
    /\ QuaternionCall("crossProduct3", crossProduct(<<a, bb, cc>>), 3)

(* a.setToRotateAboutAxis(axis, theta) *)
SetToRotateAboutAxis ==
  \E v \in Axes, th \in HalvedAngles :
    /\ HasNorm(v)
    /\ Call("setToRotateAboutAxis", setToRotateAboutAxisThrows(v), 2)
    /\ axis' = v
    /\ theta' = th
    /\ preQ' = a
    /\ a' = IF setToRotateAboutAxisThrows(v) THEN a
            ELSE setToRotateAboutAxis(a, v, th)
    /\ steps' = steps
    /\ NoOperands
    /\ NoQuaternion
    /\ NoNumbers
    /\ NoMatrices
    /\ MatrixIdle

NextQuat ==
  \/ Slerp
  \/ FromRotationMatrix
  \/ CrossProduct2
  \/ CrossProduct3
  \/ SetToRotateAboutAxis

SpecQuat == InitQuat /\ [][NextQuat]_vars

----------------------------------------------------------------------------
(* The Quaternion functions on rotations: normalize, pow, angular
   displacement and the Euler-angle conversions. *)

(* the angles of an EulerAngles object: 0, pi, and four angles whose halves
   have rational cosine and sine *)
EulerHalvedAngles ==
  {HalvedAngle(One, Zero), HalvedAngle(Zero, One),
   HalvedAngle(Rat(3, 5), Rat(4, 5)), HalvedAngle(Rat(4, 5), Rat(3, 5)),
   HalvedAngle(Rat(5, 13), Rat(-12, 13)), HalvedAngle(Rat(-12, 13), Rat(5, 13))}

Exponents == {R(0), R(1), R(2), R(3), R(-1)}

InitRot ==
  /\ a \in QuaternionsA \cup {Quaternion(R(1), R(2), R(2), R(4)),
                               Quaternion(R(-3), Zero, R(4), Zero)}
  /\ preQ = a
  /\ m = NewMatrix4
  /\ pre = NewMatrix4
  /\ applied = <<>>
  /\ elementary = TRUE
  /\ InitRecord

(* a.normalize(), where Math.sqrt of the squared norm is rational *)
Normalize ==
  /\ IsSquare(NormSquared(a))
  /\ Call("normalize", FALSE, 0)
  /\ preQ' = a
  /\ a' = normalize(a)
  /\ steps' = steps
  /\ NoOperands
  /\ NoQuaternion
  /\ NoVector
  /\ NoNumbers
  /\ NoMatrices
  /\ MatrixIdle

(* Quaternion.pow(a, exponent) *)
Pow ==
  \E exponent \in Exponents :
    /\ powExact(exponent)
    /\ b' = ZeroQuaternion /\ c' = ZeroQuaternion /\ t' = exponent
    /\ QuaternionCall("pow", pow(a, exponent), 2)

(* Quaternion.getAngularDisplacement(a, b) *)
GetAngularDisplacement ==
  \E bb \in QuaternionsB \cup RationalUnits :
    /\ b' = bb /\ c' = ZeroQuaternion /\ t' = Zero
    /\ QuaternionCall("getAngularDisplacement", getAngularDisplacement(a, bb), 2)

(* Matrix4.fromEulerAngle(e) and Matrix4.fromObjectToWorldQuaternion(
   Quaternion.setObjectToWorldFromEulerAngles(e)) of one EulerAngles e *)
FromEulerAngles ==
  \E heading \in EulerHalvedAngles, picth \in EulerHalvedAngles,
     bank \in EulerHalvedAngles :
    LET e == EulerAngles(heading, picth, bank)
        q == setObjectToWorldFromEulerAngles(e)
    IN  /\ Call("fromEulerAngle", FALSE, 1)
        /\ nums' = <<heading, picth, bank>>
        /\ axisName' = ""
        /\ retM' = fromEulerAngle(e)
        /\ retQ' = q
        /\ margs' = <<fromObjectToWorldQuaternion(q)>>
        /\ preQ' = a
        /\ a' = a
        /\ steps' = steps
        /\ NoOperands
        /\ NoVector
        /\ MatrixIdle

NextRot ==
  \/ Normalize
  \/ Pow
  \/ GetAngularDisplacement

SpecRot == InitRot /\ [][NextRot]_vars

(* The Euler-angle conversions alone: they read no object. *)
InitEuler ==
  /\ a = QuaternionIdentity
  /\ preQ = a
  /\ m = NewMatrix4
  /\ pre = NewMatrix4
  /\ applied = <<>>
  /\ elementary = TRUE
  /\ InitRecord

NextEuler == FromEulerAngles

SpecEuler == InitEuler /\ [][NextEuler]_vars

----------------------------------------------------------------------------
(* The Matrix4 receiver under the elementary constructors. *)

(* a matrix built by the sixteen-argument constructor *)
GeneralMatrix ==
  Matrix4(R(2), Zero, R(1), R(1), Zero, R(1), Zero, Zero,
          R(1), Zero, R(1), Zero, Zero, R(3), R(-1), R(2))

QuarterTurn == Angle(Zero, One)
MatrixAngles == {QuarterTurn, Angle(Rat(3, 5), Rat(4, 5))}

Translations == {Vec(R(1), R(2), R(3)), Vec(R(-2), Zero, Half)}
Scales == {Vec(Half, R(3), R(-1))}
AxisNames == {"x", "Y", "z", "w"}
Shears == {<<R(2), R(3)>>}
Orthos ==
  {<<R(-1), R(1), R(-1), R(1), R(-1), R(1)>>,
   <<Zero, R(4), R(-1), R(2), R(1), R(3)>>}

Init ==
  /\ m \in {NewMatrix4, GeneralMatrix}
  /\ pre = m
  /\ applied = <<>>
  /\ elementary = (m = NewMatrix4)
  /\ a = QuaternionIdentity
  /\ preQ = a
  /\ InitRecord

(* Bookkeeping of an elementary constructor that composed E into m. *)
Composed(name, E) ==
  /\ steps < MaxOps
  /\ Call(name, FALSE, 1)
  /\ pre' = m
  /\ applied' = Append(applied, E)
  /\ elementary' = elementary
  /\ steps' = steps + 1
  /\ margs' = <<E>>
  /\ retM' = NewMatrix4
  /\ QuaternionIdle

SetTranslation ==
  \E v \in Translations :
    /\ m' = setTranslation(m, v)
    /\ axis' = v /\ theta' = ZeroAngle
    /\ NoNumbers
    /\ Composed("setTranslation", translationMatrix(v))

SetScale ==
  \E v \in Scales :
    /\ m' = setScale(m, v)
    /\ axis' = v /\ theta' = ZeroAngle
    /\ NoNumbers
    /\ Composed("setScale", scaleMatrix(v))

SetShear ==
  \E name \in AxisNames, st \in Shears :
    /\ m' = setShear(m, name, st[1], st[2])
    /\ axisName' = name /\ nums' = st
    /\ NoVector
    /\ Composed("setShear", shearMatrix(name, st[1], st[2]))

SetRotateFromXYZAxis ==
  \E name \in AxisNames, th \in MatrixAngles :
    /\ m' = setRotateFromXYZAxis(m, name, th)
    /\ axisName' = name /\ nums' = <<>>
    /\ axis' = ZeroVector /\ theta' = th
    /\ Composed("setRotateFromXYZAxis", rotateXYZMatrix(name, th))

SetOrtho ==
  \E o \in Orthos :
    /\ m' = setOrtho(m, o[1], o[2], o[3], o[4], o[5], o[6])
    /\ nums' = o /\ axisName' = ""
    /\ NoVector
    /\ Composed("setOrtho", orthoMatrix(o[1], o[2], o[3], o[4], o[5], o[6]))

Identity ==
  /\ steps < MaxOps
  /\ Call("identity", FALSE, 0)
  /\ pre' = m
  /\ m' = identity(m)
  /\ applied' = <<>>
  /\ elementary' = TRUE
  /\ steps' = steps + 1
  /\ NoVector
  /\ NoNumbers
  /\ NoMatrices
  /\ QuaternionIdle

(* m.setPerspective(fov, aspect, near, far) with 0 < near < far and a fov
   whose half has a rational tangent *)
SetPerspective ==
  \E fov \in {HalvedAngle(Rat(3, 5), Rat(4, 5))},
     p \in {<<R(2), R(1), R(3)>>, <<One, Half, R(2)>>} :
    /\ m' = setPerspective(m, fov, p[1], p[2], p[3])
    /\ nums' = p /\ axisName' = ""
    /\ axis' = ZeroVector /\ theta' = fov
    /\ Composed("setPerspective", perspectiveMatrix(fov, p[1], p[2], p[3]))

Next ==
  \/ SetTranslation
  \/ SetScale
  \/ SetShear
  \/ SetRotateFromXYZAxis
  \/ SetOrtho
  \/ SetPerspective
  \/ Identity

Spec == Init /\ [][Next]_vars

----------------------------------------------------------------------------
(* inverse, transpose and the two-operand product on constructed matrices. *)

Permutations3 ==
  {<<1, 2, 3>>, <<1, 3, 2>>, <<2, 1, 3>>, <<2, 3, 1>>, <<3, 1, 2>>, <<3, 2, 1>>}
Signs == {-1, 1}

SignedPermutation(p, s) ==
  LET e(i, j) == IF p[i] = j THEN R(s[i]) ELSE Zero
  IN  Matrix4(e(1, 1), e(1, 2), e(1, 3), Zero,
              e(2, 1), e(2, 2), e(2, 3), Zero,
              e(3, 1), e(3, 2), e(3, 3), Zero,
              Zero, Zero, Zero, One)

RotationQuaternions ==
  {Quaternion(Zero, Rat(3, 5), Zero, Rat(4, 5)),
   Quaternion(Rat(2, 3), Rat(-2, 3), Zero, Rat(1, 3)),
   Quaternion(Half, Half, RNeg(Half), Half)}

SignedPermutations ==
  {SignedPermutation(p, s) : p \in Permutations3, s \in [1..3 -> Signs]}

ConstructedMatrices ==
  SignedPermutations
    \cup {fromObjectToWorldQuaternion(q) : q \in RotationQuaternions}
    \cup {GeneralMatrix,
          translationMatrix(Vec(R(1), R(2), R(3))),
          scaleMatrix(Vec(R(2), R(3), R(4))),
          \* a rotation block with a translation row
          Matrix4(Zero, One, Zero, Zero, RNeg(One), Zero, Zero, Zero,
                  Zero, Zero, One, Zero, R(1), R(2), R(3), One),
          \* a rotation block with a projective column
          Matrix4(Zero, One, Zero, Zero, RNeg(One), Zero, Zero, Zero,
                  Zero, Zero, One, R(1), Zero, Zero, Zero, One),
          \* singular, of rank 3 and of rank 1
          Matrix4(R(1), R(2), Zero, Zero, Zero, R(1), Zero, Zero,
                  Zero, Zero, R(3), Zero, R(1), R(3), R(3), Zero),
          Matrix4(R(1), R(1), R(1), R(1), R(1), R(1), R(1), R(1),
                  R(1), R(1), R(1), R(1), R(1), R(1), R(1), R(1))}

MatrixOperands == {NewMatrix4, GeneralMatrix}

InitInv ==
  /\ m \in ConstructedMatrices
  /\ pre = m
  /\ applied = <<>>
  /\ elementary = (m = NewMatrix4)
  /\ a = QuaternionIdentity
  /\ preQ = a
  /\ InitRecord

(* Bookkeeping of a method that replaced the components of m. *)
Replaced(name) ==
  /\ steps < MaxOps
  /\ Call(name, FALSE, 0)
  /\ pre' = m
  /\ applied' = <<>>
  /\ elementary' = FALSE
  /\ steps' = steps + 1
  /\ NoVector
  /\ NoNumbers
  /\ NoMatrices
  /\ QuaternionIdle

Inverse == m' = inverse(m) /\ Replaced("inverse")

Transpose == m' = transpose(m) /\ Replaced("transpose")

(* Matrix4.matrix4Multiply(m, X) and Matrix4.matrix4Multiply(X, m) *)
Multiply2 ==
  \E X \in MatrixOperands : \E args \in {<<m, X>>, <<X, m>>} :
    /\ Call("matrix4Multiply", FALSE, 2)
    /\ margs' = args
    /\ retM' = matrix4Multiply(args)
    /\ pre' = m
    /\ UNCHANGED <<m, applied, elementary, steps>>
    /\ NoVector
    /\ NoNumbers
    /\ QuaternionIdle

NextInv ==
  \/ Inverse
  \/ Transpose
  \/ Multiply2

SpecInv == InitInv /\ [][NextInv]_vars

----------------------------------------------------------------------------
(* The calls that can throw: the variadic products and the constructors
   that take an axis. *)

QOperand(i) == Quaternion(R(i), R(1), R(0 - i), R(2))
MOperand(i) == translationMatrix(Vec(R(i), R(1), R(0 - i)))

InitErr ==
  /\ m \in {NewMatrix4, GeneralMatrix}
  /\ pre = m
  /\ applied = <<>>
  /\ elementary = (m = NewMatrix4)
  /\ a = Quaternion(R(1), R(2), R(3), R(4))
  /\ preQ = a
  /\ InitRecord

(* Quaternion.crossProduct(a, ...) with n operands, n = 0 being no operand *)
CrossProductN ==
  \E n \in 0..MaxArgs :
    LET args == [i \in 1..n |-> IF i = 1 THEN a ELSE QOperand(i)]
    IN  /\ Call("crossProduct", crossProductThrows(args), n)
        /\ retQ' = IF crossProductThrows(args) THEN ZeroQuaternion
                   ELSE crossProduct(args)
        /\ b' = IF n >= 2 THEN args[2] ELSE ZeroQuaternion
        /\ c' = IF n >= 3 THEN args[3] ELSE ZeroQuaternion
        /\ t' = Zero
        /\ preQ' = a
        /\ UNCHANGED <<a, steps>>
        /\ NoVector
        /\ NoNumbers
        /\ NoMatrices
        /\ MatrixIdle

(* Matrix4.matrix4Multiply(m, ...) with n operands *)
StaticMultiplyN ==
  \E n \in 0..MaxArgs :
    LET args == [i \in 1..n |-> IF i = 1 THEN m ELSE MOperand(i)]
    IN  /\ Call("matrix4Multiply", matrix4MultiplyThrows(args), n)
        /\ margs' = args
        /\ retM' = IF matrix4MultiplyThrows(args) THEN NewMatrix4
                   ELSE matrix4Multiply(args)
        /\ pre' = m
        /\ UNCHANGED <<m, applied, elementary, steps>>
        /\ NoVector
        /\ NoNumbers
        /\ QuaternionIdle

(* m.matrix4Multiply(...) with n arguments: cloneFrom runs only when the
   static call returned *)
InstanceMultiplyN ==
  \E n \in 0..(MaxArgs - 1) :
    LET args == [i \in 1..n |-> MOperand(i)]
        threw == instanceMultiplyThrows(m, args)
    IN  /\ threw \/ steps < MaxMutations
        /\ Call("instanceMultiply", threw, n)
        /\ margs' = args
        /\ retM' = NewMatrix4
        /\ pre' = m
        /\ m' = IF threw THEN m ELSE instanceMultiply(m, args)
        /\ applied' = IF threw THEN applied ELSE applied \o args
        /\ elementary' = elementary
        /\ steps' = IF threw THEN steps ELSE steps + 1
        /\ NoVector
        /\ NoNumbers
        /\ QuaternionIdle

(* Bookkeeping of a constructor that takes an axis v and builds E. *)
AxisCall(name, v, threw, E) ==
  /\ HasNorm(v)
  \* an accepted axis that is not of length one goes into a receiver as
  \* constructed only: its powers leave the range of the integers
  /\ Vector3_getNorm(v) = One \/ threw \/ steps = 0
  /\ threw \/ steps < MaxMutations
  /\ Call(name, threw, 1)
  /\ axis' = v
  /\ pre' = m
  /\ applied' = IF threw THEN applied ELSE Append(applied, E)
  /\ elementary' = elementary
  /\ steps' = IF threw THEN steps ELSE steps + 1
  /\ margs' = IF threw THEN <<>> ELSE <<E>>
  /\ retM' = NewMatrix4
  /\ axisName' = ""
  /\ QuaternionIdle

SetRotateFromVector3 ==
  \E v \in Axes :
    /\ AxisCall("setRotateFromVector3", v, setRotateFromVector3Throws(v),
                rotateVector3Matrix(v, QuarterTurn))
    /\ theta' = QuarterTurn /\ nums' = <<>>
    /\ m' = IF setRotateFromVector3Throws(v) THEN m
            ELSE setRotateFromVector3(m, v, QuarterTurn)

SetScaleFromAxis ==
  \E v \in Axes :
    /\ AxisCall("setScaleFromAxis", v, setScaleFromAxisThrows(v),
                scaleFromAxisMatrix(v, R(2)))
    /\ theta' = ZeroAngle /\ nums' = <<R(2)>>
    /\ m' = IF setScaleFromAxisThrows(v) THEN m
            ELSE setScaleFromAxis(m, v, R(2))

SetReflection ==
  \E v \in Axes :
    /\ AxisCall("setReflection", v, setReflectionThrows(v),
                reflectionMatrix(v))
    /\ theta' = ZeroAngle /\ nums' = <<>>
    /\ m' = IF setReflectionThrows(v) THEN m ELSE setReflection(m, v)

NextErr ==
  \/ CrossProductN
  \/ StaticMultiplyN
  \/ InstanceMultiplyN
  \/ SetRotateFromVector3
  \/ SetScaleFromAxis
  \/ SetReflection

SpecErr == InitErr /\ [][NextErr]_vars

----------------------------------------------------------------------------
(* Iterators over the Matrix4 receiver, which clearTranslation mutates
   between the calls. *)
InitIter ==
  /\ m = GeneralMatrix
  /\ pre = m
  /\ applied = <<>>
  /\ elementary = FALSE
  /\ a = QuaternionIdentity
  /\ preQ = a
  /\ InitRecord

IteratorCall(name, k) ==
  /\ op' = name /\ err' = FALSE /\ nargs' = k
  /\ pre' = m
  /\ UNCHANGED <<m, applied, elementary, steps>>
  /\ NoVector
  /\ NoNumbers
  /\ NoMatrices
  /\ QuaternionIdle

(* m[Symbol.iterator](); requestedOn remembers the matrix of that moment *)
RequestIterator ==
  /\ Len(iterators) < MaxIterators
  /\ iterators' = Append(iterators, [it |-> iterator(m), requestedOn |-> m])
  /\ UNCHANGED yielded
  /\ IteratorCall("iterator", Len(iterators) + 1)

CallsMade == LET RECURSIVE Total(_)
                 Total(k) == IF k = 0 THEN 0
                             ELSE iterators[k].it.index + Total(k - 1)
             IN  Total(Len(iterators))

(* next() on the k-th iterator requested *)
IteratorNext ==
  \E k \in 1..Len(iterators) :
    /\ CallsMade < MaxNext
    /\ yielded' = iteratorResult(iterators[k].it)
    /\ iterators' = [iterators EXCEPT ![k].it = iteratorAdvanced(iterators[k].it)]
    /\ IteratorCall("next", k)

(* m.clearTranslation() *)
ClearTranslation ==
  /\ Call("clearTranslation", FALSE, 0)
  /\ pre' = m
  /\ m' = clearTranslation(m)
  /\ applied' = <<>>
  /\ elementary' = FALSE
  /\ steps' = steps
  /\ NoVector
  /\ NoNumbers
  /\ NoMatrices
  /\ QuaternionIdle

NextIter ==
  \/ RequestIterator
  \/ IteratorNext
  \/ ClearTranslation

SpecIter == InitIter /\ [][NextIter]_vars

----------------------------------------------------------------------------
(* Properties *)

InUnitInterval(x) == RLe(Zero, x) /\ RLe(x, One)

(* C1: for every unit quaternion a and every t in [0, 1],
   Quaternion.slerp(a, a, t) has the four components of a. *)
C1_SlerpOfEqualOperands ==
  (op = "slerp" /\ b = a /\ IsUnit(a) /\ InUnitInterval(t)) => retQ = a

(* C2: for every unit quaternion q,
   Quaternion.fromRotationMatrix(Matrix4.fromWorldToObjectQuaternion(q))
   is q or Quaternion.negate(q), component by component. *)
C2_MatrixRoundTrip ==
  (op = "fromRotationMatrix" /\ IsUnit(a)) => retQ \in {a, negate(a)}

UnitCube == <<R(-1), R(1), R(-1), R(1), R(-1), R(1)>>

(* C3, as stated: setOrtho(-1, 1, -1, 1, -1, 1) on an identity Matrix4 leaves
   it the identity in all sixteen components. *)
C3_OrthoOfUnitCubeIsIdentity ==
  (op = "setOrtho" /\ nums = UnitCube /\ pre = NewMatrix4) => m = NewMatrix4

(* C3, amended: setOrtho(-1, 1, -1, 1, -1, 1) on an identity Matrix4 leaves
   m11 = m22 = tw = 1, m33 = -1 and every other component 0. *)
C3_OrthoOfUnitCubeFlipsZ ==
  (op = "setOrtho" /\ nums = UnitCube /\ pre = NewMatrix4)
    => m = [NewMatrix4 EXCEPT !.m33 = R(-1)]

C3_Witness ==
  op = "setOrtho" /\ nums = UnitCube /\ pre = NewMatrix4 /\ ~err

(* the 4 x 4 grid of a Matrix4, rows first, and the textbook product *)
Grid(M) ==
  <<<<M.m11, M.m12, M.m13, M.m14>>, <<M.m21, M.m22, M.m23, M.m24>>,
    <<M.m31, M.m32, M.m33, M.m34>>, <<M.tx, M.ty, M.tz, M.tw>>>>

GridProduct(A, B) ==
  [i \in 1..4 |-> [j \in 1..4 |->
     Sum4(RMul(A[i][1], B[1][j]), RMul(A[i][2], B[2][j]),
          RMul(A[i][3], B[3][j]), RMul(A[i][4], B[4][j]))]]

RECURSIVE ProductOf(_)
ProductOf(Es) ==
  IF Es = <<>> THEN Grid(NewMatrix4)
  ELSE GridProduct(ProductOf(SubSeq(Es, 1, Len(Es) - 1)), Grid(Es[Len(Es)]))

Det3(G) ==
  RSub(Sum3(Mul3(G[1][1], G[2][2], G[3][3]), Mul3(G[1][2], G[2][3], G[3][1]),
            Mul3(G[1][3], G[2][1], G[3][2])),
       Sum3(Mul3(G[1][3], G[2][2], G[3][1]), Mul3(G[1][2], G[2][1], G[3][3]),
            Mul3(G[1][1], G[2][3], G[3][2])))

(* an orthonormal 3 x 3 block of determinant +1 and nothing else *)
IsRotation(M) ==
  LET G == Grid(M)
  IN  /\ \A i, j \in 1..3 :
           Sum3(RMul(G[i][1], G[j][1]), RMul(G[i][2], G[j][2]),
                RMul(G[i][3], G[j][3])) = (IF i = j THEN One ELSE Zero)
      /\ Det3(G) = One
      /\ M.m14 = Zero /\ M.m24 = Zero /\ M.m34 = Zero
      /\ M.tx = Zero /\ M.ty = Zero /\ M.tz = Zero /\ M.tw = One

(* C4: for every rotation matrix M (orthonormal 3 x 3 block of determinant
   +1, m14 = m24 = m34 = 0, tx = ty = tz = 0, tw = 1), the receiver after
   M.inverse() equals the receiver after M.transpose() in all components. *)
C4_InverseOfRotationIsTranspose ==
  (op = "inverse" /\ IsRotation(pre)) => m = transpose(pre)

C4_Witness ==
  /\ op = "inverse"
  /\ IsRotation(pre)
  /\ transpose(pre) # pre
  /\ pre.m11 = Rat(7, 9)

(* C5: Matrix4.matrix4Multiply(M, I) with I the identity equals M in all
   sixteen components, and inverse() on an identity leaves the identity. *)
C5_IdentityIsNeutral ==
  /\ (op = "matrix4Multiply" /\ nargs = 2 /\ ~err /\ margs[2] = NewMatrix4)
       => retM = margs[1]
  /\ (op = "inverse" /\ pre = NewMatrix4) => m = NewMatrix4

C5_Witness ==
  /\ op = "matrix4Multiply"
  /\ margs = <<GeneralMatrix, NewMatrix4>>
  /\ retM = GeneralMatrix

(* C6: crossProduct is associative: crossProduct(crossProduct(a, b), c) equals
   crossProduct(a, crossProduct(b, c)) component by component, and both equal
   the three-operand call crossProduct(a, b, c). *)
C6_CrossProductAssociative ==
  op = "crossProduct3" =>
    /\ crossProduct(<<crossProduct(<<a, b>>), c>>)
         = crossProduct(<<a, crossProduct(<<b, c>>)>>)
    /\ retQ = crossProduct(<<a, crossProduct(<<b, c>>)>>)

C6_Witness ==
  /\ op = "crossProduct3"
  /\ a = Quaternion(R(1), R(2), R(3), R(4))
  /\ b = Quaternion(R(1), Zero, R(-1), R(2))
  /\ c = Quaternion(R(2), R(1), Zero, R(-1))
  /\ retQ # crossProduct(<<c, b, a>>)

(* the Hamilton product p * q of the textbooks *)
HamiltonProduct(p, q) ==
  Quaternion(
    RSub(RSub(RSub(RMul(p.w, q.w), RMul(p.x, q.x)), RMul(p.y, q.y)),
         RMul(p.z, q.z)),
    RSub(Sum3(RMul(p.w, q.x), RMul(p.x, q.w), RMul(p.y, q.z)), RMul(p.z, q.y)),
    RAdd(RSub(RMul(p.w, q.y), RMul(p.x, q.z)),
         RAdd(RMul(p.y, q.w), RMul(p.z, q.x))),
    RAdd(RAdd(RMul(p.w, q.z), RMul(p.x, q.y)),
         RSub(RMul(p.z, q.w), RMul(p.y, q.x))))

(* the imaginary parts of p and q are parallel: their vector product is 0 *)
ImaginaryParallel(p, q) ==
  /\ RSub(RMul(p.y, q.z), RMul(p.z, q.y)) = Zero
  /\ RSub(RMul(p.z, q.x), RMul(p.x, q.z)) = Zero
  /\ RSub(RMul(p.x, q.y), RMul(p.y, q.x)) = Zero

(* C7: Quaternion.crossProduct(a, b) is the Hamilton product b * a, and
   differs from a * b whenever the imaginary parts of a and b are not
   parallel. *)
C7_CrossProductIsReversedHamilton ==
  op = "crossProduct2" =>
    /\ retQ = HamiltonProduct(b, a)
    /\ ~ImaginaryParallel(a, b) => retQ # HamiltonProduct(a, b)

C7_Witness ==
  /\ op = "crossProduct2"
  /\ a = Quaternion(Half, Half, Half, Half)
  /\ b = Quaternion(R(1), Zero, R(-1), R(2))
  /\ ~ImaginaryParallel(a, b)

(* C8: Quaternion.crossProduct and the static Matrix4.matrix4Multiply throw
   with 0 or 1 operands and never with 2 or more; m.matrix4Multiply() with no
   argument throws too and leaves the sixteen components of m unchanged. *)
C8_FewerThanTwoOperandsThrow ==
  /\ op = "crossProduct" => (err <=> nargs < 2)
  /\ op = "matrix4Multiply" => (err <=> nargs < 2)
  /\ (op = "instanceMultiply" /\ nargs = 0) => (err /\ m = pre)

C8_Witness ==
  /\ op = "instanceMultiply"
  /\ nargs = 0
  /\ err
  /\ steps = 1
  /\ m = pre

OutOfTolerance(v) ==
  RLt(AxisTolerance, RAbs(RSub(Vector3_getNorm(v), One)))

(* C9: every constructor that takes an axis throws for every axis whose
   length differs from 1 by more than 0.01, in either direction, and then
   leaves the receiver unchanged.  Stated of
   Quaternion.setToRotateAboutAxis. *)
C9_AxisLengthChecked ==
  (op = "setToRotateAboutAxis" /\ OutOfTolerance(axis)) => (err /\ a = preQ)

(* The same, of the three Matrix4 constructors that take an axis. *)
MatrixAxisLengthChecked ==
  (/\ op \in {"setRotateFromVector3", "setScaleFromAxis", "setReflection"}
   /\ OutOfTolerance(axis)) => (err /\ m = pre)

(* C10: after any sequence of elementary-constructor calls on a Matrix4 that
   starts as the identity, the receiver is the left-to-right product
   E1 * E2 * ... * En of the elementary matrices of those calls. *)
C10_ReceiverIsProductOfElementaries ==
  elementary => Grid(m) = ProductOf(applied)

C10_Witness ==
  /\ elementary
  /\ op = "setTranslation"
  /\ Len(applied) >= 2
  /\ applied[Len(applied) - 1] = translationMatrix(Vec(R(1), R(2), R(3)))
  /\ applied[Len(applied)] = translationMatrix(Vec(R(-2), Zero, Half))
  /\ m.tx = R(-1) /\ m.ty = R(2) /\ m.tz = Rat(7, 2)

(* the textbook adjugate and determinant of a 4 x 4 grid: the minor of
   (i, j) drops row i and column j *)
Minor(G, i, j) ==
  LET rows == [k \in 1..3 |-> IF k < i THEN k ELSE k + 1]
      cols == [k \in 1..3 |-> IF k < j THEN k ELSE k + 1]
  IN  [r \in 1..3 |-> [q \in 1..3 |-> G[rows[r]][cols[q]]]]

Cofactor(G, i, j) ==
  IF (i + j) % 2 = 0 THEN Det3(Minor(G, i, j)) ELSE RNeg(Det3(Minor(G, i, j)))

Adjugate(G) == [i \in 1..4 |-> [j \in 1..4 |-> Cofactor(G, j, i)]]

Det4(G) ==
  Sum4(RMul(G[1][1], Cofactor(G, 1, 1)), RMul(G[1][2], Cofactor(G, 1, 2)),
       RMul(G[1][3], Cofactor(G, 1, 3)), RMul(G[1][4], Cofactor(G, 1, 4)))

(* C11: M.inverse() never raises; when the determinant of M is exactly 0 the
   receiver becomes the unscaled adjugate (transposed cofactor matrix) of the
   original M; otherwise it becomes the adjugate divided by the determinant,
   and the original M times the result is the identity. *)
C11_InverseIsScaledAdjugate ==
  op = "inverse" =>
    LET G == Grid(pre)
        d == Det4(G)
        A == Adjugate(G)
        N == Grid(m)
    IN  /\ ~err
        /\ d = Zero => \A i, j \in 1..4 : N[i][j] = A[i][j]
        /\ d # Zero =>
             /\ \A i, j \in 1..4 : N[i][j] = RDiv(A[i][j], d)
             /\ \A i, j \in 1..4 :
                  GridProduct(G, N)[i][j] = (IF i = j THEN One ELSE Zero)

(* a singular matrix of rank 3 was inverted: the receiver is its adjugate,
   which is not the zero matrix *)
C11_Witness ==
  /\ op = "inverse"
  /\ ~err
  /\ Det4(Grid(pre)) = Zero
  /\ pre.m33 = R(3)
  /\ m.tw = R(3)
  /\ m # pre

(* C12: normalize() on a quaternion of norm exactly 0 sets the receiver to
   the identity (1, 0, 0, 0) without error; on a quaternion of non-zero norm
   it divides each component by the norm, so that the receiver has norm 1
   and the direction of the original. *)
C12_NormalizeGivesUnitOrIdentity ==
  op = "normalize" =>
    /\ ~err
    /\ NormSquared(preQ) = Zero => a = Quaternion(One, Zero, Zero, Zero)
    /\ NormSquared(preQ) # Zero =>
         LET norm == Sqrt(NormSquared(preQ))
         IN  /\ a = Quaternion(RDiv(preQ.w, norm), RDiv(preQ.x, norm),
                               RDiv(preQ.y, norm), RDiv(preQ.z, norm))
             /\ NormSquared(a) = One
             /\ RLt(Zero, norm)
             /\ Quaternion_scalarMultiply(norm, a) = preQ

(* the zero quaternion was normalized *)
C12_Witness ==
  op = "normalize" /\ preQ = ZeroQuaternion /\ a = QuaternionIdentity

(* C13: for every Euler triple e the 3 x 3 rotation block of
   Matrix4.fromEulerAngle(e) equals, entry by entry, that of
   Matrix4.fromObjectToWorldQuaternion(
   Quaternion.setObjectToWorldFromEulerAngles(e)). *)
C13_EulerDerivationsAgree ==
  op = "fromEulerAngle" =>
    \A i, j \in 1..3 : Grid(retM)[i][j] = Grid(margs[1])[i][j]

(* a triple with three different angles, none of them 0 or pi *)
C13_Witness ==
  /\ op = "fromEulerAngle"
  /\ nums = <<HalvedAngle(Rat(3, 5), Rat(4, 5)), HalvedAngle(Rat(4, 5), Rat(3, 5)),
              HalvedAngle(Rat(5, 13), Rat(-12, 13))>>
  /\ retM = fromEulerAngle(EulerAngles(nums[1], nums[2], nums[3]))
  /\ retM.m23 = Rat(-24, 25)

(* C14: the n-th next() call on an iterator yields, for n <= 16, the n-th of
   m11, m12, m13, m14, m21, ..., m34, tx, ty, tz, tw of the matrix as it was
   when the iterator was requested, with done = false, whatever happened to
   the matrix or to other iterators since; the 17th and every later call
   reports done = true; a fresh iterator starts from m11. *)
C14_IteratorIsFiniteSequence ==
  /\ op = "next" =>
       LET n == iterators[nargs].it.index
           G == Grid(iterators[nargs].requestedOn)
       IN  /\ n <= 16 => /\ yielded.done = FALSE
                         /\ yielded.value = G[((n - 1) \div 4) + 1][((n - 1) % 4) + 1]
           /\ n >= 17 => yielded.done = TRUE
  /\ op = "iterator" => iterators[nargs].it.index = 0

(* the first seventeen calls alone behave as the claim says *)
C14_SeventeenCalls ==
  /\ op = "next" =>
       LET n == iterators[nargs].it.index
           G == Grid(iterators[nargs].requestedOn)
       IN  /\ n <= 16 => /\ yielded.done = FALSE
                         /\ yielded.value = G[((n - 1) \div 4) + 1][((n - 1) % 4) + 1]
           /\ n = 17 => yielded.done = TRUE /\ yielded.value = undefined
           /\ n >= 18 => yielded.done = FALSE /\ yielded.value = undefined
  /\ op = "iterator" => iterators[nargs].it.index = 0

(* C15: composing a with the angular displacement from a to b gives b scaled
   by the squared norm of a: crossProduct(a, getAngularDisplacement(a, b))
   equals b component by component when a is a unit quaternion. *)
C15_DisplacementTakesAToB ==
  op = "getAngularDisplacement" =>
    /\ crossProduct(<<a, retQ>>) = Quaternion_scalarMultiply(NormSquared(a), b)
    /\ IsUnit(a) => crossProduct(<<a, retQ>>) = b

(* unit a and b, neither real, with a displacement that is not b *)
C15_Witness ==
  /\ op = "getAngularDisplacement"
  /\ a = Quaternion(Rat(2, 3), Rat(-2, 3), Zero, Rat(1, 3))
  /\ b = Quaternion(Rat(7, 25), Rat(24, 25), Zero, Zero)
  /\ retQ = getAngularDisplacement(a, b)
  /\ retQ # b
  /\ crossProduct(<<a, retQ>>) = b

(* cos(n * alpha) for an integer n, from cos(alpha) *)
RECURSIVE CosMultiple(_, _)
CosMultiple(n, cosAlpha) ==
  IF n < 0 THEN CosMultiple(0 - n, cosAlpha)
  ELSE IF n = 0 THEN One
  ELSE IF n = 1 THEN cosAlpha
  ELSE RSub(RMul(RMul(Two, cosAlpha), CosMultiple(n - 1, cosAlpha)),
            CosMultiple(n - 2, cosAlpha))

(* C17: for a unit quaternion a with |a.w| <= 0.999 and an exponent e,
   pow(a, e) has w = cos(e * acos(a.w)) and the imaginary part of a times
   sin(e * acos(a.w)) / sin(acos(a.w)), so it has unit norm and pow(a, 0) is
   the identity (1, 0, 0, 0); for |a.w| > 0.999 pow(a, e) is a. *)
C17_PowScalesHalfAngle ==
  (op = "pow" /\ IsUnit(a)) =>
    IF RLe(RAbs(a.w), PowThreshold)
      THEN LET k == SinMultiple(t[1], a.w)
           IN  /\ retQ.w = CosMultiple(t[1], a.w)
               /\ retQ.x = RMul(a.x, k)
               /\ retQ.y = RMul(a.y, k)
               /\ retQ.z = RMul(a.z, k)
               /\ IsUnit(retQ)
               /\ t = Zero => retQ = Quaternion(One, Zero, Zero, Zero)
      ELSE retQ = a

(* what pow does return: w is left as it was *)
C17_PowKeepsW ==
  (op = "pow" /\ IsUnit(a)) =>
    IF RLe(RAbs(a.w), PowThreshold)
      THEN LET k == SinMultiple(t[1], a.w)
           IN  retQ = Quaternion(a.w, RMul(a.x, k), RMul(a.y, k), RMul(a.z, k))
      ELSE retQ = a

(* C16: setPerspective(fov, aspect, near, far) on an identity receiver with
   0 < near < far gives a matrix with m34 = -1, tw = 0,
   m33 = (near + far) / (near - far) and tz = 2 near far / (near - far), under
   which the row vector (0, 0, -near, 1) has depth z'/w' = -1 after the
   divide and (0, 0, -far, 1) has depth +1. *)
C16_PerspectiveMapsNearAndFar ==
  (op = "setPerspective" /\ pre = NewMatrix4 /\ ~err) =>
    LET near == nums[2]
        far == nums[3]
        G == Grid(m)
        zOf(d) == RAdd(RMul(RNeg(d), G[3][3]), G[4][3])
        wOf(d) == RAdd(RMul(RNeg(d), G[3][4]), G[4][4])
    IN  (RLt(Zero, near) /\ RLt(near, far)) =>
          /\ m.m34 = RNeg(One)
          /\ m.tw = Zero
          /\ m.m33 = RDiv(RAdd(near, far), RSub(near, far))
          /\ m.tz = RDiv(RMul(RMul(Two, near), far), RSub(near, far))
          /\ RDiv(zOf(near), wOf(near)) = RNeg(One)
          /\ RDiv(zOf(far), wOf(far)) = One

(* the frustum near = 1/2, far = 2 on an identity receiver *)
C16_Witness ==
  /\ op = "setPerspective"
  /\ pre = NewMatrix4
  /\ nums = <<One, Half, R(2)>>
  /\ m.m33 = Rat(-5, 3)
  /\ m.m22 = Rat(3, 4)

(* C18: the elementary matrix setShear composes into the receiver has
   tx = ty = tz = 0, tw = 1 and m14 = m24 = m34 = 0 for every axis string and
   every s, t, so that on an identity receiver tx = ty = tz = 0 afterwards;
   with an axis string other than x, X, y, Y, z, Z the elementary matrix is
   the identity, the receiver keeps all sixteen components and nothing is
   raised. *)
C18_ShearClearsTranslationRow ==
  op = "setShear" =>
    LET E == applied[Len(applied)]
    IN  /\ E = shearMatrix(axisName, nums[1], nums[2])
        /\ E.tx = Zero /\ E.ty = Zero /\ E.tz = Zero /\ E.tw = One
        /\ E.m14 = Zero /\ E.m24 = Zero /\ E.m34 = Zero
        /\ pre = NewMatrix4 => m.tx = Zero /\ m.ty = Zero /\ m.tz = Zero
        /\ axisName \notin {"x", "X", "y", "Y", "z", "Z"} =>
             E = NewMatrix4 /\ m = pre /\ ~err

(* a shear along x composed into a receiver that has a translation row *)
C18_Witness ==
  /\ op = "setShear"
  /\ axisName = "x"
  /\ pre = GeneralMatrix
  /\ m # pre
  /\ m.tz = R(-1)
  /\ applied[Len(applied)].m31 = R(2)

====
